---- MODULE Spec2Model ----
(***************************************************************************)
(* Model of bn::adjacency_list (bayesian/network/adjacency_list.hpp).      *)
(*                                                                         *)
(* The container keeps four members: stored_node_ and stored_arc_          *)
(* (std::list, insertion ordered), endpoint_dic_ (unordered_map            *)
(* arc -> (from, to)) and adjacency_ (unordered_map                        *)
(* node -> list of (to, arc)).  Every public member function runs to       *)
(* completion on the calling thread, so each one is a single action.       *)
(* Node and arc handles are shared_ptr identities; they are modelled as    *)
(* names compared by identity.                                             *)
(***************************************************************************)
EXTENDS Integers, Sequences, FiniteSets, TLC

\* ---------------------------------------------------------------- bounds
\* Longest stored_node_ and stored_arc_ the calls are allowed to build.
MaxNodeLen == 3
MaxArcLen == 2

\* The node and arc handles the caller owns.
Nodes == {"n1", "n2"}
Arcs == {"a1", "a2"}

VARIABLES stored_node_, stored_arc_, endpoint_dic_, adjacency_, last

vars == <<stored_node_, stored_arc_, endpoint_dic_, adjacency_, last>>

\* The four data members as one value, so that member functions are operators
\* from a container value to a container value.
G == [stored_node |-> stored_node_, stored_arc |-> stored_arc_,
      endpoint_dic |-> endpoint_dic_, adjacency |-> adjacency_]

\* The identities listed in a std::list.
Registered(seq) == {seq[i] : i \in 1..Len(seq)}

\* ------------------------------------------------ standard-library helpers
\* std::list::erase(position)
ListErase(s, i) == SubSeq(s, 1, i - 1) \o SubSeq(s, i + 1, Len(s))

\* std::list::pop_back
PopBack(s) == SubSeq(s, 1, Len(s) - 1)

\* std::find over [crbegin, crend): position of the LAST element equal to x,
\* 0 for crend.
FindLast(s, x) ==
    IF \E i \in 1..Len(s) : s[i] = x
    THEN CHOOSE i \in 1..Len(s) : s[i] = x /\ \A j \in (i + 1)..Len(s) : s[j] # x
    ELSE 0

\* std::find over [cbegin, cend): position of the FIRST element equal to x,
\* 0 for cend.
FindFirst(s, x) ==
    IF \E i \in 1..Len(s) : s[i] = x
    THEN CHOOSE i \in 1..Len(s) : s[i] = x /\ \A j \in 1..(i - 1) : s[j] # x
    ELSE 0

\* unordered_map::erase(key): no effect when the key is absent.
MapErase(m, k) == [x \in (DOMAIN m) \ {k} |-> m[x]]

\* unordered_map::operator[](key) = v: inserts or overwrites.
MapAssign(m, k, v) == [x \in (DOMAIN m) \cup {k} |-> IF x = k THEN v ELSE m[x]]

\* unordered_map::operator[](key) used only for access: default-constructs a
\* missing entry (an empty list) and leaves an existing one alone.
MapIndex(m, k) == IF k \in DOMAIN m THEN m ELSE MapAssign(m, k, <<>>)

EmptyMap == [x \in {} |-> 0]

\* ------------------------------------------------------------- add_node
\* adjacency_[node].clear(): creates the bucket or empties an existing one.
add_node(g, node) ==
    LET pushed == [g EXCEPT !.stored_node = Append(@, node)]
    IN  [pushed EXCEPT !.adjacency = MapAssign(@, node, <<>>)]

\* add_node when adjacency_[node] throws: operator[] has not inserted, the
\* handler pops the node again and rethrows.
add_node_throw(g, node) ==
    LET pushed == [g EXCEPT !.stored_node = Append(@, node)]
    IN  [pushed EXCEPT !.stored_node = PopBack(@)]

\* -------------------------------------------------------------- add_arc
\* Points of add_arc at which an exception can be raised.
FailPoints == {"endpoint_insert", "adjacency_index", "adjacency_push"}

\* fail = "none": the call returns arc.
\* fail = "endpoint_insert": endpoint_dic_[arc] throws (nothing inserted).
\* fail = "adjacency_index": adjacency_[from] throws (no bucket created).
\* fail = "adjacency_push": push_back throws after adjacency_[from] returned.
add_arc(g, arc, from, to, fail) ==
    LET pushed == [g EXCEPT !.stored_arc = Append(@, arc)]
        indexed == [pushed EXCEPT !.endpoint_dic = MapAssign(@, arc, <<from, to>>)]
        bucketed == [indexed EXCEPT !.adjacency = MapIndex(@, from)]
        inner(h) == [h EXCEPT !.endpoint_dic = MapErase(@, arc)]
        outer(h) == [h EXCEPT !.stored_arc = PopBack(@)]
    IN  CASE fail = "endpoint_insert" -> outer(pushed)
          [] fail = "adjacency_index" -> outer(inner(indexed))
          [] fail = "adjacency_push" -> outer(inner(bucketed))
          [] OTHER ->
               [bucketed EXCEPT !.adjacency[from] = Append(@, <<to, arc>>)]

\* ----------------------------------------------- remove_arc (private)
\* All three lookups precede the three erasures.  stage tells how far the
\* call got: the failed lookup, or "erased".
remove_arc_impl_early_erase(g, arc, from, to) ==
    LET arc_it == FindLast(g.stored_arc, arc)
        erased == [g EXCEPT !.endpoint_dic = MapErase(@, arc)]
    IN  IF arc_it = 0 THEN [ret |-> FALSE, g |-> g, stage |-> "arc_it"]
        ELSE IF from \notin DOMAIN g.adjacency
             THEN [ret |-> FALSE, g |-> erased, stage |-> "from_it"]
        ELSE LET adjacency_it == FindFirst(g.adjacency[from], <<to, arc>>)
             IN  IF adjacency_it = 0
                 THEN [ret |-> FALSE, g |-> erased, stage |-> "adjacency_it"]
                 ELSE [ret |-> TRUE,
                       g |-> [erased EXCEPT
                                !.adjacency[from] = ListErase(@, adjacency_it),
                                !.stored_arc = ListErase(@, arc_it)],
                       stage |-> "erased"]

\* The private remove_arc matching the bucket entry by its target only.
remove_arc_impl_by_target(g, arc, from, to) ==
    LET arc_it == FindLast(g.stored_arc, arc)
    IN  IF arc_it = 0 THEN [ret |-> FALSE, g |-> g, stage |-> "arc_it"]
        ELSE IF from \notin DOMAIN g.adjacency
             THEN [ret |-> FALSE, g |-> g, stage |-> "from_it"]
        ELSE LET targets == [i \in 1..Len(g.adjacency[from]) |->
                                g.adjacency[from][i][1]]
                 adjacency_it == FindFirst(targets, to)
             IN  IF adjacency_it = 0
                 THEN [ret |-> FALSE, g |-> g, stage |-> "adjacency_it"]
                 ELSE [ret |-> TRUE,
                       g |-> [g EXCEPT
                                !.adjacency[from] = ListErase(@, adjacency_it),
                                !.endpoint_dic = MapErase(@, arc),
                                !.stored_arc = ListErase(@, arc_it)],
                       stage |-> "erased"]

remove_arc_impl(g, arc, from, to) ==
    LET arc_it == FindLast(g.stored_arc, arc)
    IN  IF arc_it = 0 THEN [ret |-> FALSE, g |-> g, stage |-> "arc_it"]
        ELSE IF from \notin DOMAIN g.adjacency
             THEN [ret |-> FALSE, g |-> g, stage |-> "from_it"]
        ELSE LET adjacency_it == FindFirst(g.adjacency[from], <<to, arc>>)
             IN  IF adjacency_it = 0
                 THEN [ret |-> FALSE, g |-> g, stage |-> "adjacency_it"]
                 ELSE [ret |-> TRUE,
                       g |-> [g EXCEPT
                                !.adjacency[from] = ListErase(@, adjacency_it),
                                !.endpoint_dic = MapErase(@, arc),
                                !.stored_arc = ListErase(@, arc_it)],
                       stage |-> "erased"]

\* ------------------------------------------------------ remove_arc(arc)
remove_arc(g, arc) ==
    IF arc \notin DOMAIN g.endpoint_dic
    THEN [ret |-> FALSE, g |-> g, stage |-> "endpoint_it"]
    ELSE remove_arc_impl(g, arc, g.endpoint_dic[arc][1], g.endpoint_dic[arc][2])

\* ------------------------------------------------- remove_arc(from, to)
\* The entries std::find_if can stop at: unordered_map iteration order is
\* unspecified, so any entry whose endpoints equal (from, to) may be the first.
EndpointMatches(g, from, to) ==
    {a \in DOMAIN g.endpoint_dic : g.endpoint_dic[a] = <<from, to>>}

\* found is the arc find_if stopped at (a member of EndpointMatches).
remove_arc_between(g, from, to, found) ==
    remove_arc_impl(g, found, from, to)

remove_arc_between_none(g) == [ret |-> FALSE, g |-> g, stage |-> "endpoint_it"]

\* ---------------------------------------------------------- remove_node
\* The loop "for(auto const& arc : backup_stored_arc)" from position i on,
\* working on the live members g; removed counts the arcs erased so far.
RECURSIVE cascade(_, _, _, _, _)
cascade(g, backup_stored_arc, node, i, removed) ==
    IF i > Len(backup_stored_arc)
    THEN [g |-> g, is_error |-> FALSE, removed |-> removed, why |-> "none"]
    ELSE LET arc == backup_stored_arc[i]
         IN  IF arc \notin DOMAIN g.endpoint_dic
             THEN [g |-> g, is_error |-> TRUE, removed |-> removed,
                   why |-> "endpoint_lookup"]
             ELSE IF g.endpoint_dic[arc][1] = node \/ g.endpoint_dic[arc][2] = node
                  THEN LET r == remove_arc(g, arc)
                       IN  IF ~r.ret
                           THEN [g |-> r.g, is_error |-> TRUE,
                                 removed |-> removed, why |-> "remove_arc"]
                           ELSE cascade(r.g, backup_stored_arc, node, i + 1,
                                        removed + 1)
                  ELSE cascade(g, backup_stored_arc, node, i + 1, removed)

\* The "Restore" block: the three backups are moved back.
restore_without_adjacency(g, backup) ==
    [g EXCEPT !.stored_arc = backup.stored_arc,
              !.endpoint_dic = backup.endpoint_dic]

restore(g, backup) ==
    [g EXCEPT !.stored_arc = backup.stored_arc,
              !.endpoint_dic = backup.endpoint_dic,
              !.adjacency = backup.adjacency]

\* remove_node searching stored_node_ from the front.
remove_node_first_match(g, node) ==
    LET it == FindFirst(g.stored_node, node)
    IN  IF it = 0
        THEN [ret |-> FALSE, g |-> g, removed |-> 0, why |-> "not_registered"]
        ELSE LET c == cascade(g, g.stored_arc, node, 1, 0)
             IN  IF c.is_error
                 THEN [ret |-> FALSE, g |-> restore(c.g, g),
                       removed |-> c.removed, why |-> c.why]
                 ELSE [ret |-> TRUE,
                       g |-> [c.g EXCEPT !.adjacency = MapErase(@, node),
                                         !.stored_node = ListErase(@, it)],
                       removed |-> c.removed, why |-> "none"]

\* remove_node without the adjacency_.erase(node) of the success path.
remove_node_keep_bucket(g, node) ==
    LET it == FindLast(g.stored_node, node)
    IN  IF it = 0
        THEN [ret |-> FALSE, g |-> g, removed |-> 0, why |-> "not_registered"]
        ELSE LET c == cascade(g, g.stored_arc, node, 1, 0)
             IN  IF c.is_error
                 THEN [ret |-> FALSE, g |-> restore(c.g, g),
                       removed |-> c.removed, why |-> c.why]
                 ELSE [ret |-> TRUE,
                       g |-> [c.g EXCEPT !.stored_node = ListErase(@, it)],
                       removed |-> c.removed, why |-> "none"]

remove_node(g, node) ==
    LET it == FindLast(g.stored_node, node)
    IN  IF it = 0
        THEN [ret |-> FALSE, g |-> g, removed |-> 0, why |-> "not_registered"]
        ELSE LET c == cascade(g, g.stored_arc, node, 1, 0)
             IN  IF c.is_error
                 THEN [ret |-> FALSE, g |-> restore(c.g, g),
                       removed |-> c.removed, why |-> c.why]
                 ELSE [ret |-> TRUE,
                       g |-> [c.g EXCEPT !.adjacency = MapErase(@, node),
                                         !.stored_node = ListErase(@, it)],
                       removed |-> c.removed, why |-> "none"]

\* -------------------------------------------------------------- queries
\* is_adjacent: the arcs the call may return; empty means nullptr.
is_adjacent(g, from, to) == EndpointMatches(g, from, to)

is_connect(g, node, arc) ==
    IF arc \notin DOMAIN g.endpoint_dic THEN 0
    ELSE IF g.endpoint_dic[arc][1] = node THEN 1
    ELSE IF g.endpoint_dic[arc][2] = node THEN -1
    ELSE 0

\* The null handle, which is no node.
nullptr == "nullptr"

source(g, arc) ==
    IF arc \notin DOMAIN g.endpoint_dic THEN nullptr ELSE g.endpoint_dic[arc][1]

target(g, arc) ==
    IF arc \notin DOMAIN g.endpoint_dic THEN nullptr ELSE g.endpoint_dic[arc][2]

\* parent_nodes: one source per endpoint entry whose target is child, in the
\* map's unspecified iteration order; modelled as the set of nodes returned.
parent_nodes(g, child) ==
    {g.endpoint_dic[a][1] : a \in {b \in DOMAIN g.endpoint_dic :
                                      g.endpoint_dic[b][2] = child}}

\* child_nodes reading the bucket with adjacency_[parent] instead of at().
child_nodes_index(g, parent) ==
    LET h == [g EXCEPT !.adjacency = MapIndex(@, parent)]
    IN  [ok |-> TRUE,
         nodes |-> [i \in 1..Len(h.adjacency[parent]) |->
                       h.adjacency[parent][i][1]],
         g |-> h]

\* child_nodes: adjacency_.at(parent) throws std::out_of_range when parent
\* has no bucket (ok = FALSE); otherwise the targets of the bucket in order.
\* g is the container after the call (the member function is const).
child_nodes(g, parent) ==
    IF parent \notin DOMAIN g.adjacency
    THEN [ok |-> FALSE, nodes |-> <<>>, g |-> g]
    ELSE [ok |-> TRUE,
          nodes |-> [i \in 1..Len(g.adjacency[parent]) |->
                        g.adjacency[parent][i][1]],
          g |-> g]

all_node(g) == g.stored_node

all_arc(g) == g.stored_arc

\* ---------------------------------------------------------------- state
\* last records the most recent call: which member function, whether it
\* returned normally with true / a handle (ret), for removals the lookup that
\* decided the result (why) and how many arcs the cascade had erased.
Call(op, ret, why, removed) ==
    [op |-> op, ret |-> ret, why |-> why, removed |-> removed]

Install(g) ==
    /\ stored_node_' = g.stored_node
    /\ stored_arc_' = g.stored_arc
    /\ endpoint_dic_' = g.endpoint_dic
    /\ adjacency_' = g.adjacency

Init ==
    /\ stored_node_ = <<>>
    /\ stored_arc_ = <<>>
    /\ endpoint_dic_ = EmptyMap
    /\ adjacency_ = EmptyMap
    /\ last = Call("ctor", TRUE, "none", 0)

AddNode ==
    \E node \in Nodes :
        /\ Len(stored_node_) < MaxNodeLen
        /\ Install(add_node(G, node))
        /\ last' = Call("add_node", TRUE, "none", 0)

AddNodeThrow ==
    \E node \in Nodes :
        /\ Len(stored_node_) < MaxNodeLen
        /\ Install(add_node_throw(G, node))
        /\ last' = Call("add_node", FALSE, "adjacency_index", 0)

AddArc ==
    \E arc \in Arcs, from \in Nodes, to \in Nodes :
        /\ Len(stored_arc_) < MaxArcLen
        /\ Install(add_arc(G, arc, from, to, "none"))
        /\ last' = Call("add_arc", TRUE, "none", 0)

AddArcThrow ==
    \E arc \in Arcs, from \in Nodes, to \in Nodes, fail \in FailPoints :
        /\ Len(stored_arc_) < MaxArcLen
        /\ Install(add_arc(G, arc, from, to, fail))
        /\ last' = Call("add_arc", FALSE, fail, 0)

RemoveNode ==
    \E node \in Nodes :
        LET r == remove_node(G, node)
        IN  /\ Install(r.g)
            /\ last' = Call("remove_node", r.ret, r.why, r.removed)

RemoveArc ==
    \E arc \in Arcs :
        LET r == remove_arc(G, arc)
        IN  /\ Install(r.g)
            /\ last' = Call("remove_arc", r.ret, r.stage, 0)

RemoveArcBetween ==
    \E from \in Nodes, to \in Nodes :
        \/ /\ EndpointMatches(G, from, to) = {}
           /\ Install(remove_arc_between_none(G).g)
           /\ last' = Call("remove_arc_between", FALSE, "endpoint_it", 0)
        \/ \E found \in EndpointMatches(G, from, to) :
              LET r == remove_arc_between(G, from, to, found)
              IN  /\ Install(r.g)
                  /\ last' = Call("remove_arc_between", r.ret, r.stage, 0)

\* add_node called for a node that is not currently registered.
AddNodeFresh ==
    \E node \in Nodes \ Registered(stored_node_) :
        /\ Len(stored_node_) < MaxNodeLen
        /\ Install(add_node(G, node))
        /\ last' = Call("add_node", TRUE, "none", 0)

\* add_arc called for an arc that is not currently registered, with a from
\* node that is currently registered.
AddArcFresh ==
    \E arc \in Arcs \ Registered(stored_arc_),
       from \in Registered(stored_node_), to \in Nodes :
        /\ Len(stored_arc_) < MaxArcLen
        /\ Install(add_arc(G, arc, from, to, "none"))
        /\ last' = Call("add_arc", TRUE, "none", 0)

ChildNodes ==
    \E parent \in Nodes :
        LET r == child_nodes(G, parent)
        IN  /\ Install(r.g)
            /\ last' = Call("child_nodes", r.ok,
                            IF r.ok THEN "none" ELSE "out_of_range", 0)

\* Calls that return normally.
NextOk == AddNode \/ AddArc \/ RemoveNode \/ RemoveArc \/ RemoveArcBetween

\* Calls that return normally, and calls in which a library call throws.
Next == NextOk \/ AddNodeThrow \/ AddArcThrow \/ ChildNodes

\* The calls of a caller that never adds an identity that is registered and
\* never adds an arc from an unregistered node.
NextDisciplined ==
    AddNodeFresh \/ AddArcFresh \/ RemoveNode \/ RemoveArc \/ RemoveArcBetween

\* Every call sequence, with injected std::exception failures.
Spec == Init /\ [][Next]_vars

\* Every call sequence in which no library call throws.
SpecOk == Init /\ [][NextOk]_vars

\* Every call sequence of a disciplined caller.
SpecDisciplined == Init /\ [][NextDisciplined]_vars

\* ---------------------------------------------------------- properties
\* Positions <<node, i>> of the bucket entries that carry arc a.
BucketEntries(a) ==
    {p \in UNION {{<<n, i>> : i \in 1..Len(adjacency_[n])} : n \in DOMAIN adjacency_} :
        adjacency_[p[1]][p[2]][2] = a}

Unchanged3 == UNCHANGED <<stored_arc_, endpoint_dic_, adjacency_>>

Unchanged4 == UNCHANGED <<stored_node_, stored_arc_, endpoint_dic_, adjacency_>>

\* C1: after every successful mutation, an arc is in the Registered Arc Set
\* iff it has an Endpoint Index entry iff it occurs in exactly one bucket
\* entry, and that entry lies in the bucket of the arc's indexed source.
C1_ArcIndexAgreement ==
    \A a \in Arcs :
        /\ (a \in Registered(stored_arc_)) <=> (a \in DOMAIN endpoint_dic_)
        /\ (a \in DOMAIN endpoint_dic_) <=> (Cardinality(BucketEntries(a)) = 1)
        /\ (a \in DOMAIN endpoint_dic_) =>
               \A p \in BucketEntries(a) : p[1] = endpoint_dic_[a][1]

\* C2: a call of add_arc that throws at the endpoint insertion or at the
\* bucket append leaves the Registered Arc Set, the Endpoint Index and the
\* Adjacency Index exactly as they were before the call.
C2_AddArcStrongGuarantee ==
    [][(last'.op = "add_arc" /\ ~last'.ret) => Unchanged3]_vars

\* C3: add_node(n) immediately followed by remove_node(n) returns true and
\* leaves the Registered Node Set as before the add_node; a node that was not
\* registered before is then absent from all_node().
C3_RoundTripRegistration ==
    \A n \in Nodes :
        LET r == remove_node(add_node(G, n), n)
        IN  /\ r.ret
            /\ all_node(r.g) = all_node(G)
            /\ (n \notin Registered(all_node(G)) => n \notin Registered(all_node(r.g)))

\* C4: for every arc a of all_arc(), self loops included, source(a) and
\* target(a) are non-null, is_connect(source(a), a) > 0 and
\* is_connect(target(a), a) < 0.
C4_EndpointConsistency ==
    \A a \in Registered(all_arc(G)) :
        /\ source(G, a) # nullptr
        /\ target(G, a) # nullptr
        /\ is_connect(G, source(G, a), a) > 0
        /\ is_connect(G, target(G, a), a) < 0

\* The arcs of the Registered Arc Set whose indexed source or target is n.
Incident(g, n) ==
    {a \in Registered(g.stored_arc) :
        a \in DOMAIN g.endpoint_dic /\ n \in {g.endpoint_dic[a][1], g.endpoint_dic[a][2]}}

\* C5: for every registered node n with incident arcs A, remove_node(n)
\* leaves no arc of A in all_arc() or in the Endpoint Index, and the other
\* arcs stay registered in their original order.
C5_CascadeCompleteness ==
    \A n \in Registered(stored_node_) :
        LET A == Incident(G, n)
            r == remove_node(G, n)
            keep(a) == a \notin A
        IN  /\ Registered(all_arc(r.g)) \cap A = {}
            /\ (DOMAIN r.g.endpoint_dic) \cap A = {}
            /\ all_arc(r.g) = SelectSeq(all_arc(G), keep)

\* C6: whenever remove_node returns false (node not registered, or the
\* cascade hit an error after erasing some arcs), the four members are
\* identical to their values before the call.
C6_RemoveNodeFalseNoChange ==
    [][(last'.op = "remove_node" /\ ~last'.ret) => Unchanged4]_vars

\* remove_node returned false after its cascade had already erased an arc.
C6_Witness ==
    last.op = "remove_node" /\ ~last.ret /\ last.removed > 0

\* C7: whenever remove_arc(arc) or remove_arc(from, to) returns false, none
\* of the four members has changed.
C7_RemoveArcFalseNoChange ==
    [][(last'.op \in {"remove_arc", "remove_arc_between"} /\ ~last'.ret)
          => Unchanged4]_vars

\* remove_arc returned false at the last lookup of the primitive: the arc had
\* an endpoint entry, was in stored_arc_ and its source had a bucket.
C7_Witness ==
    last.op = "remove_arc" /\ ~last.ret /\ last.why = "adjacency_it"

\* C8: every arc listed in the Registered Arc Set has an Endpoint Index
\* entry, and remove_node never sets is_error because an endpoint lookup
\* failed.
C8_TripWireUnreachable ==
    /\ Registered(stored_arc_) \subseteq DOMAIN endpoint_dic_
    /\ ~(last.op = "remove_node" /\ last.why = "endpoint_lookup")

\* C9: after every successful operation the Adjacency Index has a bucket for
\* a node exactly when the node is in the Registered Node Set.
C9_BucketIffRegistered ==
    DOMAIN adjacency_ = Registered(stored_node_)

\* C10: whenever is_adjacent(from, to) returns an arc, child_nodes(from)
\* succeeds and contains to, and parent_nodes(to) contains from.
C10_AdjacencyEndpointSymmetry ==
    \A from \in Nodes, to \in Nodes :
        is_adjacent(G, from, to) # {} =>
            /\ child_nodes(G, from).ok
            /\ to \in Registered(child_nodes(G, from).nodes)
            /\ from \in parent_nodes(G, to)

\* C11: add_node only appends to the Registered Node Set and creates an empty
\* bucket: the Registered Arc Set, the Endpoint Index and every existing
\* entry of every bucket are left unchanged, also when node is registered or
\* has a bucket already.
C11_AddNodeFrame ==
    [][(last'.op = "add_node" /\ last'.ret) =>
          /\ stored_arc_' = stored_arc_
          /\ endpoint_dic_' = endpoint_dic_
          /\ \A n \in DOMAIN adjacency_ :
                n \in DOMAIN adjacency_' /\ adjacency_'[n] = adjacency_[n]]_vars

\* C12: add_arc with a from node that has no bucket reports an error and
\* changes nothing; so no call of add_arc, returning or throwing, leaves the
\* Adjacency Index with a bucket it did not have before.
C12_AddArcCreatesNoBucket ==
    [][(last'.op = "add_arc") => (DOMAIN adjacency_' = DOMAIN adjacency_)]_vars

\* Number of entries of seq equal to x.
Count(seq, x) == Cardinality({i \in 1..Len(seq) : seq[i] = x})

\* seq without its last entry equal to x, the other entries in order.
RECURSIVE WithoutLast(_, _)
WithoutLast(seq, x) ==
    IF seq = <<>> THEN <<>>
    ELSE IF seq[Len(seq)] = x THEN PopBack(seq)
    ELSE Append(WithoutLast(PopBack(seq), x), seq[Len(seq)])

\* C13: when the Registered Node Set holds several entries equal to node and
\* remove_node(node) returns true, all_node() afterwards is all_node() before
\* with the last occurrence of node deleted and the other entries in order.
C13_RemoveNodeLastMatch ==
    \A n \in Nodes :
        LET r == remove_node(G, n)
        IN  (Count(all_node(G), n) > 1 /\ r.ret) =>
                all_node(r.g) = WithoutLast(all_node(G), n)

\* remove_node returned true for a node that is still listed next to another
\* node: the removed node is the one whose bucket is gone, so it was listed
\* several times before the call.
C13_Witness ==
    /\ last.op = "remove_node" /\ last.ret
    /\ \E n \in Registered(stored_node_) :
          /\ n \notin DOMAIN adjacency_
          /\ \E m \in Registered(stored_node_) : m # n /\ m \in DOMAIN adjacency_

\* seq restricted to the entries that are not arc a (stored_arc_) or do not
\* carry arc a (a bucket).
OtherArcs(seq, a) == LET keep(x) == x # a IN SelectSeq(seq, keep)

OtherEntries(seq, a) == LET keep(e) == e[2] # a IN SelectSeq(seq, keep)

\* C14: when remove_arc(from, to) returns true, exactly one arc loses its
\* registration, that arc had indexed endpoints (from, to), every other arc
\* (parallel arcs included) keeps its place in all_arc(), its Endpoint Index
\* entry and its bucket entry, and the Registered Node Set is unchanged.
C14_RemoveArcBetweenFrame ==
    \A from \in Nodes, to \in Nodes :
        \A found \in EndpointMatches(G, from, to) :
            LET r == remove_arc_between(G, from, to, found)
                gone == (DOMAIN endpoint_dic_) \ (DOMAIN r.g.endpoint_dic)
            IN  r.ret =>
                  /\ Cardinality(gone) = 1
                  /\ \A a \in gone : endpoint_dic_[a] = <<from, to>>
                  /\ Len(all_arc(r.g)) = Len(all_arc(G)) - 1
                  /\ \A a \in gone :
                        /\ OtherArcs(all_arc(r.g), a) = OtherArcs(all_arc(G), a)
                        /\ DOMAIN r.g.adjacency = DOMAIN adjacency_
                        /\ \A n \in DOMAIN adjacency_ :
                              OtherEntries(r.g.adjacency[n], a) =
                                  OtherEntries(adjacency_[n], a)
                  /\ \A b \in DOMAIN r.g.endpoint_dic :
                        r.g.endpoint_dic[b] = endpoint_dic_[b]
                  /\ all_node(r.g) = all_node(G)

\* Two registered arcs share the endpoints (from, to), each with its own
\* bucket entry, and remove_arc(from, to) returns true for either of them.
C14_Witness ==
    \E from \in Nodes, to \in Nodes :
        /\ Cardinality(EndpointMatches(G, from, to)) = 2
        /\ \A found \in EndpointMatches(G, from, to) :
              /\ <<to, found>> \in Registered(adjacency_[from])
              /\ remove_arc_between(G, from, to, found).ret

\* The targets of the arcs of all_arc() whose source is parent, in all_arc()
\* order.
TargetsFrom(g, parent) ==
    LET from_parent(a) == source(g, a) = parent
        arcs == SelectSeq(all_arc(g), from_parent)
    IN  [i \in 1..Len(arcs) |-> target(g, arcs[i])]

\* C15: for every registered node parent, child_nodes(parent) is the
\* sequence of target(a) for the arcs a of all_arc() with source(a) = parent,
\* in the order in which those arcs were added.
C15_ChildNodesInOrder ==
    \A parent \in Registered(all_node(G)) :
        /\ child_nodes(G, parent).ok
        /\ child_nodes(G, parent).nodes = TargetsFrom(G, parent)

\* C16: child_nodes(parent) for a node without a bucket ends in an error
\* (std::out_of_range), returns no node sequence, creates no bucket and
\* leaves the four members unchanged.
C16_ChildNodesOutOfRange ==
    \A parent \in Nodes \ DOMAIN adjacency_ :
        LET r == child_nodes(G, parent)
        IN  ~r.ok /\ r.nodes = <<>> /\ r.g = G

\* child_nodes has just thrown std::out_of_range while nodes are registered.
C16_Witness ==
    last.op = "child_nodes" /\ ~last.ret /\ last.why = "out_of_range"
        /\ stored_node_ # <<>>

\* C17: under the caller discipline, in every reachable state each
\* registered arc occurs once in the Registered Arc Set, has one Endpoint
\* Index entry and one bucket entry, in its source's bucket; no other arc has
\* an index or bucket entry; a bucket exists exactly for the registered nodes.
C17_DisciplinedConsistency ==
    /\ \A a \in Registered(stored_arc_) :
          /\ Count(stored_arc_, a) = 1
          /\ a \in DOMAIN endpoint_dic_
          /\ Cardinality(BucketEntries(a)) = 1
          /\ \A p \in BucketEntries(a) :
                /\ p[1] = endpoint_dic_[a][1]
                /\ adjacency_[p[1]][p[2]] = <<endpoint_dic_[a][2], a>>
    /\ \A a \in Arcs \ Registered(stored_arc_) :
          a \notin DOMAIN endpoint_dic_ /\ BucketEntries(a) = {}
    /\ DOMAIN adjacency_ = Registered(stored_node_)

\* A disciplined caller has removed a node whose cascade erased an arc while
\* another arc stays registered.
C17_Witness ==
    last.op = "remove_node" /\ last.ret /\ last.removed > 0 /\ stored_arc_ # <<>>

\* C18: for an arc that is neither in the Registered Arc Set nor in the
\* Endpoint Index and a from node that has a bucket, add_arc(arc, from, to)
\* immediately followed by remove_arc(arc) returns true and restores the
\* four members exactly.
C18_ArcRoundTrip ==
    \A arc \in Arcs, from \in Nodes, to \in Nodes :
        (/\ arc \notin Registered(stored_arc_)
         /\ arc \notin DOMAIN endpoint_dic_
         /\ from \in DOMAIN adjacency_) =>
            LET r == remove_arc(add_arc(G, arc, from, to, "none"), arc)
            IN  r.ret /\ r.g = G

\* A round trip through a bucket that already holds another arc to the same
\* target: the arc is unregistered, from has a bucket with an entry for to,
\* and the two calls succeed.
C18_Witness ==
    \E arc \in Arcs, from \in Nodes, to \in Nodes :
        /\ arc \notin Registered(stored_arc_)
        /\ arc \notin DOMAIN endpoint_dic_
        /\ from \in DOMAIN adjacency_
        /\ \E e \in Registered(adjacency_[from]) : e[1] = to
        /\ remove_arc(add_arc(G, arc, from, to, "none"), arc).ret

\* C19: there is no reachable state in which all_arc() or all_node() is
\* non-empty while remove_arc(a) returns false for every a of all_arc() and
\* remove_node(n) returns false for every n of all_node().
C19_NeverStuck ==
    (all_arc(G) # <<>> \/ all_node(G) # <<>>) =>
        \/ \E a \in Registered(all_arc(G)) : remove_arc(G, a).ret
        \/ \E n \in Registered(all_node(G)) : remove_node(G, n).ret

====
